---- MODULE Spec2Model ----
(***************************************************************************)
(* Gemini.js (vanillaGem): the request executor GeminiClient.request with  *)
(* its timeout / retry / backoff loop, the callers that suspend on it      *)
(* (TextHandler.generate, VisionHandler.analyze, ChatSession.send) and the *)
(* chat session's turn log.                                                *)
(*                                                                         *)
(* Texts are sequences of one-character strings, so that concatenation and *)
(* the empty (falsy) string are what they are in the program.  Fractions   *)
(* (temperature, topP) are counted in hundredths.                          *)
(***************************************************************************)
EXTENDS Integers, Sequences, FiniteSets, TLC

VARIABLES options, client, req, messages, systemPrompt, history, nsends,
          cleared, outcome, input, output

vars == <<options, client, req, messages, systemPrompt, history, nsends,
          cleared, outcome, input, output>>

(***************************************************************************)
(* Bounds of the model                                                     *)
(***************************************************************************)
\* largest maxRetries option a caller configures
MaxRetriesOpt == 2
\* number of ChatSession.send calls started on the session
MaxSends == 2

(***************************************************************************)
(* Program constants                                                       *)
(***************************************************************************)
DefaultMaxRetries == 3
BackoffBase == 500
TimeoutCode == 408

\* an option the caller did not pass (JavaScript undefined)
Undefined == -1

RetryableCodes == {429, 500, 502, 503, 504}

\* one call of request may be suspended per slot
Slots == {1, 2}

(***************************************************************************)
(* Inputs: what the server and the transport can answer to one attempt     *)
(***************************************************************************)
Statuses == {200, 400, 404, 429, 500, 502, 503, 504}

\* names of the errors fetch rejects with when no response is received:
\* browsers raise TypeError, other fetch implementations their own classes
TransportErrors == {"TypeError", "NetworkError", "FetchError"}

\* response.ok of the fetch API
Ok(status) == status >= 200 /\ status <= 299

StatusText(status) ==
  CASE status = 200 -> <<"O", "K">>
    [] status = 400 -> <<"B", "a", "d">>
    [] status = 404 -> <<"N", "o", "t">>
    [] status = 429 -> <<"T", "o", "o">>
    [] status = 500 -> <<"I", "n", "t">>
    [] status = 502 -> <<"G", "w">>
    [] status = 503 -> <<"U", "n", "a">>
    [] status = 504 -> <<"G", "w", "T">>
    [] OTHER -> <<>>

(***************************************************************************)
(* JSON bodies.  kind "invalid" is a body that is not JSON (response.json  *)
(* rejects with a SyntaxError), kind "null" is the JSON value null, kind   *)
(* "object" an object with an optional error member and an optional        *)
(* candidates member.                                                      *)
(***************************************************************************)
Part(hasText, text) == [hasText |-> hasText, text |-> text]
Candidate(hasContent, hasParts, parts) ==
  [hasContent |-> hasContent, hasParts |-> hasParts, parts |-> parts]
Body(kind, error, hasCandidates, candidates) ==
  [kind |-> kind, error |-> error, hasCandidates |-> hasCandidates,
   candidates |-> candidates]

InvalidBody == Body("invalid", "absent", FALSE, <<>>)
NullBody == Body("null", "absent", FALSE, <<>>)
NoBody == Body("none", "absent", FALSE, <<>>)
ObjectBody(cands) == Body("object", "absent", TRUE, cands)

ErrorBodies ==
  {InvalidBody, NullBody,
   Body("object", "absent", FALSE, <<>>),
   Body("object", "object", FALSE, <<>>)}

CandAB == Candidate(TRUE, TRUE, <<Part(TRUE, <<"a">>), Part(TRUE, <<"b">>)>>)
CandB == Candidate(TRUE, TRUE, <<Part(TRUE, <<"b">>)>>)
CandNoText == Candidate(TRUE, TRUE, <<Part(FALSE, <<>>), Part(TRUE, <<"a">>)>>)
CandNoParts == Candidate(TRUE, FALSE, <<>>)
CandNoContent == Candidate(FALSE, FALSE, <<>>)

SuccessBodies ==
  {InvalidBody, NullBody,
   Body("object", "absent", FALSE, <<>>),
   ObjectBody(<<CandAB>>),
   ObjectBody(<<CandB, CandAB>>),
   ObjectBody(<<CandNoText>>),
   ObjectBody(<<CandNoParts>>),
   ObjectBody(<<CandNoContent>>)}

(***************************************************************************)
(* Errors                                                                  *)
(***************************************************************************)
Err(name, code, message) == [name |-> name, code |-> code, message |-> message]
NoError == Err("none", 0, <<>>)
GeminiError(message, code) == Err("GeminiError", code, message)
\* errors of the runtime carry no code
RuntimeError(name) == Err(name, 0, <<>>)
TimeoutError == GeminiError(<<"t", "i", "m", "e", "d">>, TimeoutCode)
\* String(object), the message Error's constructor makes of an object
ObjectString == <<"[", "o", "b", "j", "]">>

(***************************************************************************)
(* Request payloads and conversation turns                                 *)
(***************************************************************************)
TextPart(text) == [kind |-> "text", text |-> text, mime |-> <<>>]
InlinePart(mime, data) == [kind |-> "inline_data", text |-> data, mime |-> mime]
\* the value undefined in the place of a part
UndefinedPart == [kind |-> "undefined", text |-> <<>>, mime |-> <<>>]
Turn(role, parts) == [role |-> role, parts |-> parts]
Payload(contents) == [contents |-> contents]
NoData == Payload(<<>>)

NoImage == [type |-> "none", scheme |-> "", mime |-> <<>>]

(***************************************************************************)
(* GeminiClient                                                            *)
(***************************************************************************)
\* v || d on a number option: undefined and 0 are falsy
OrDefault(v, d) == IF v = Undefined \/ v = 0 THEN d ELSE v

GeminiClient(opts) ==
  [maxRetries |-> OrDefault(opts.maxRetries, DefaultMaxRetries)]

isRetryableError(error) ==
  IF error.name = "GeminiError"
  THEN error.code \in RetryableCodes
  ELSE error.name = "TypeError" \/ error.name = "NetworkError"

RECURSIVE Pow2(_)
Pow2(n) == IF n = 0 THEN 1 ELSE 2 * Pow2(n - 1)

BackoffDelayFromZero(retries) == Pow2(retries - 1) * BackoffBase

\* the wait before the next attempt, retries already incremented
BackoffDelay(retries) == Pow2(retries) * BackoffBase

\* what the server answered, as the policy of the retry loop sees a status
StatusClass(status) ==
  IF Ok(status) THEN "ok"
  ELSE IF status \in {429, 500, 502, 503, 504} THEN "retryable"
  ELSE "fatal"

(***************************************************************************)
(* One call of GeminiClient.request and of the handler that awaits it, per *)
(* slot.  pc is the position of the call: "free" (no call), "reading"      *)
(* (VisionHandler awaits _blobToBase64), "fetch" (awaits fetch), "backoff" *)
(* (awaits the backoff timer), "done" / "failed" (request returned / threw *)
(* and the awaiting handler has not resumed yet), "rejected" (the handler  *)
(* threw without calling request).                                         *)
(* attempts, delays, log, served and lastErr record what happened: the     *)
(* number of fetch calls, the waits, the class of each attempt's answer,   *)
(* the last response and the error the last failed attempt raised.         *)
(***************************************************************************)
NoResponse == [status |-> 0, body |-> NoBody]

FreeSlot ==
  [caller |-> "none", pc |-> "free", retries |-> 0, attempts |-> 0,
   delays |-> <<>>, log |-> <<>>, timers |-> {}, served |-> NoResponse,
   lastErr |-> NoError, thrown |-> NoError, result |-> NoBody,
   data |-> NoData, message |-> <<>>, before |-> <<>>, image |-> NoImage]

\* while (retries <= this.maxRetries) { controller, timer, fetch ...
\* falling out of the loop returns undefined
LoopHead(r) ==
  IF r.retries <= client.maxRetries
  THEN [r EXCEPT !.pc = "fetch", !.attempts = @ + 1,
                 !.timers = @ \cup {r.attempts + 1}]
  ELSE [r EXCEPT !.pc = "done", !.result = Body("undefined", "absent", FALSE, <<>>)]

\* request(endpoint, data) up to its first await
StartRequest(r, caller, data) ==
  LoopHead([r EXCEPT !.caller = caller, !.data = data, !.retries = 0])

\* the error a non-success response is turned into (lines 66-67)
ResponseError(status, body) ==
  CASE body.kind = "invalid" -> RuntimeError("SyntaxError")
    [] body.kind = "null" -> RuntimeError("TypeError")
    [] OTHER -> GeminiError(IF body.error = "absent" THEN StatusText(status)
                            ELSE ObjectString, status)

\* the catch block (lines 71-83)
CatchSubstitutes(r, error, class) ==
  LET n == r.retries + 1
      r1 == [r EXCEPT !.retries = n, !.lastErr = error, !.log = Append(@, class)]
  IN  IF error.name = "AbortError"
      THEN [r1 EXCEPT !.pc = "failed", !.thrown = TimeoutError]
      ELSE IF ~isRetryableError(error)
      THEN [r1 EXCEPT !.pc = "failed", !.thrown = error]
      ELSE IF n > client.maxRetries
      THEN [r1 EXCEPT !.pc = "failed",
                      !.thrown = RuntimeError("Error")]
      ELSE [r1 EXCEPT !.pc = "backoff", !.delays = Append(@, BackoffDelay(n))]

CatchRetriesAbort(r, error, class) ==
  LET n == r.retries + 1
      r1 == [r EXCEPT !.retries = n, !.lastErr = error, !.log = Append(@, class)]
  IN  IF n > client.maxRetries
         \/ ~(isRetryableError(error) \/ error.name = "AbortError")
      THEN [r1 EXCEPT !.pc = "failed",
                      !.thrown = IF error.name = "AbortError"
                                 THEN TimeoutError ELSE error]
      ELSE [r1 EXCEPT !.pc = "backoff", !.delays = Append(@, BackoffDelay(n))]

CatchWaitsWhenSpent(r, error, class) ==
  LET n == r.retries + 1
      r1 == [r EXCEPT !.retries = n, !.lastErr = error, !.log = Append(@, class)]
  IN  IF error.name = "AbortError"
      THEN [r1 EXCEPT !.pc = "failed", !.thrown = TimeoutError]
      ELSE IF ~isRetryableError(error)
      THEN [r1 EXCEPT !.pc = "failed", !.thrown = error]
      ELSE [r1 EXCEPT !.pc = "backoff", !.delays = Append(@, BackoffDelay(n))]

Catch(r, error, class) ==
  LET n == r.retries + 1
      r1 == [r EXCEPT !.retries = n, !.lastErr = error, !.log = Append(@, class)]
  IN  IF error.name = "AbortError"
      THEN [r1 EXCEPT !.pc = "failed", !.thrown = TimeoutError]
      ELSE IF n > client.maxRetries \/ ~isRetryableError(error)
      THEN [r1 EXCEPT !.pc = "failed", !.thrown = error]
      ELSE [r1 EXCEPT !.pc = "backoff", !.delays = Append(@, BackoffDelay(n))]

\* fetch resolves with a response: the attempt's timer is cleared, the body
\* is decoded, a non-success status is thrown into the catch block
OnResponse(r, status, body) ==
  LET r1 == [r EXCEPT !.timers = @ \ {r.attempts},
                      !.served = [status |-> status, body |-> body]]
  IN  IF ~Ok(status)
      THEN Catch(r1, ResponseError(status, body), StatusClass(status))
      ELSE IF body.kind = "invalid"
      THEN Catch(r1, RuntimeError("SyntaxError"), StatusClass(status))
      ELSE [r1 EXCEPT !.pc = "done", !.result = body,
                      !.log = Append(@, StatusClass(status))]

FetchResponds(s) ==
  /\ req[s].pc = "fetch"
  /\ \E status \in Statuses :
       \E body \in (IF Ok(status) THEN SuccessBodies ELSE ErrorBodies) :
         req' = [req EXCEPT ![s] = OnResponse(@, status, body)]
  /\ UNCHANGED <<input, output, options, client, messages, systemPrompt,
                 history, nsends, cleared, outcome>>

\* fetch rejects without a response; the attempt's timer stays armed (no
\* clearTimeout on this path).  When such a timer fires later it aborts a
\* controller whose fetch has settled, which changes nothing in the call.
FetchRejects(s) ==
  /\ req[s].pc = "fetch"
  /\ \E name \in TransportErrors :
       req' = [req EXCEPT ![s] =
                 Catch([@ EXCEPT !.served = NoResponse],
                       RuntimeError(name), "none")]
  /\ UNCHANGED <<input, output, options, client, messages, systemPrompt,
                 history, nsends, cleared, outcome>>

\* the attempt's timer fires while fetch is pending: controller.abort()
\* makes fetch reject with an AbortError
TimeoutFires(s) ==
  /\ req[s].pc = "fetch"
  /\ req[s].attempts \in req[s].timers
  /\ req' = [req EXCEPT ![s] =
               Catch([@ EXCEPT !.timers = @ \ {req[s].attempts},
                               !.served = NoResponse],
                     RuntimeError("AbortError"), "timeout")]
  /\ UNCHANGED <<input, output, options, client, messages, systemPrompt,
                 history, nsends, cleared, outcome>>

\* the backoff timer fires: next iteration of the loop
BackoffElapsed(s) ==
  /\ req[s].pc = "backoff"
  /\ req' = [req EXCEPT ![s] = LoopHead(@)]
  /\ UNCHANGED <<input, output, options, client, messages, systemPrompt,
                 history, nsends, cleared, outcome>>

(***************************************************************************)
(* TextResponse                                                            *)
(***************************************************************************)
\* new TextResponse(rawResponse) reads rawResponse.candidates: a TypeError
\* when rawResponse is null or undefined
WrapThrows(raw) == raw.kind \in {"null", "undefined"}

TextResponse(raw) ==
  [raw |-> raw,
   candidates |-> IF raw.hasCandidates THEN raw.candidates ELSE <<>>]

RECURSIVE JoinTexts(_)
JoinTexts(parts) ==
  IF parts = <<>> THEN <<>>
  ELSE (IF Head(parts).hasText THEN Head(parts).text ELSE <<>>)
       \o JoinTexts(Tail(parts))

\* text() reads _candidates[0].content.parts: a TypeError without content
TextThrows(response) ==
  Len(response.candidates) > 0 /\ ~response.candidates[1].hasContent

ResponseText(response) ==
  IF Len(response.candidates) = 0 THEN <<>>
  ELSE LET c == response.candidates[1]
       IN  JoinTexts(IF c.hasParts THEN c.parts ELSE <<>>)

(***************************************************************************)
(* Calls.  outcome is what the most recent call returned or threw; it is   *)
(* reset when the next call starts.                                        *)
(***************************************************************************)
NoTextResponse == TextResponse(NoBody)
\* status is "returned" or "threw"; a ChatSession.clear returns the session
Outcome(caller, status, err, response) ==
  [caller |-> caller, status |-> status, err |-> err, response |-> response,
   self |-> caller = "clear"]
NoOutcome == Outcome("none", "none", NoError, NoTextResponse)

InFlight == {s \in Slots : req[s].pc # "free"}
\* the slot of a new call
NextSlot == CHOOSE s \in Slots \ InFlight : \A t \in Slots \ InFlight : s <= t

\* the handler resumes after await this.client.request(...) and wraps the
\* body, or the rejection passes through it
Resume(r) ==
  IF r.pc \in {"failed", "rejected"}
  THEN Outcome(r.caller, "threw", r.thrown, NoTextResponse)
  ELSE IF WrapThrows(r.result)
  THEN Outcome(r.caller, "threw", RuntimeError("TypeError"), NoTextResponse)
  ELSE Outcome(r.caller, "returned", NoError, TextResponse(r.result))

(***************************************************************************)
(* TextHandler.generate(prompt) with a string prompt                       *)
(***************************************************************************)
Prompts == {<<>>, <<"p">>}

TextGenerate ==
  /\ InFlight = {}
  /\ \E prompt \in Prompts :
       req' = [req EXCEPT ![NextSlot] =
                 StartRequest(@, "text",
                              Payload(<<Turn("none", <<TextPart(prompt)>>)>>))]
  /\ outcome' = NoOutcome
  /\ UNCHANGED <<input, output, options, client, messages, systemPrompt,
                 history, nsends, cleared>>

TextResume(s) ==
  /\ req[s].caller = "text"
  /\ req[s].pc \in {"done", "failed"}
  /\ outcome' = Resume(req[s])
  /\ req' = [req EXCEPT ![s] = FreeSlot]
  /\ UNCHANGED <<input, output, options, client, messages, systemPrompt,
                 history, nsends, cleared>>

(***************************************************************************)
(* VisionHandler.analyze(image, prompt)                                    *)
(***************************************************************************)
Image(type, scheme, mime) == [type |-> type, scheme |-> scheme, mime |-> mime]

\* strings by their prefix, Blob / File by their type member, and values
\* that are neither
ImageInputs ==
  {Image("string", "data:", <<>>), Image("string", "http", <<>>),
   Image("string", "other", <<>>),
   Image("blob", "", <<>>), Image("blob", "", <<"p", "n", "g">>),
   Image("number", "", <<>>), Image("undefined", "", <<>>)}

Jpeg == <<"j", "p", "e", "g">>
ValidationError == Err("Error", 0, <<"I", "m", "a", "g", "e">>)
DefaultPrompt == <<"D">>

VisionPayload(imagePart, prompt) ==
  Payload(<<Turn("none", <<imagePart, TextPart(prompt)>>)>>)

\* analyze up to its first await, or to its throw
AnalyzeStart(r, image, prompt) ==
  IF image.type = "string"
  THEN IF image.scheme \in {"data:", "http"}
       THEN StartRequest([r EXCEPT !.image = image], "vision",
                         VisionPayload(InlinePart(Jpeg, <<"u">>), prompt))
       ELSE [r EXCEPT !.caller = "vision", !.image = image, !.pc = "rejected",
                      !.thrown = ValidationError]
  ELSE IF image.type = "blob"
  THEN [r EXCEPT !.caller = "vision", !.image = image, !.pc = "reading",
                 !.message = prompt]
  ELSE StartRequest([r EXCEPT !.image = image], "vision",
                    VisionPayload(UndefinedPart, prompt))

VisionAnalyze ==
  /\ InFlight = {}
  /\ \E image \in ImageInputs : \E prompt \in {DefaultPrompt, <<"p">>} :
       req' = [req EXCEPT ![NextSlot] = AnalyzeStart(@, image, prompt)]
  /\ outcome' = NoOutcome
  /\ UNCHANGED <<input, output, options, client, messages, systemPrompt,
                 history, nsends, cleared>>

\* _blobToBase64 settles: the reader's result, or the reader's error
VisionBlobLoaded(s) ==
  /\ req[s].pc = "reading"
  /\ \/ req' = [req EXCEPT ![s] =
                  StartRequest(@, "vision",
                    VisionPayload(
                      InlinePart(IF req[s].image.mime = <<>> THEN Jpeg
                                 ELSE req[s].image.mime, <<"6", "4">>),
                      req[s].message))]
     \/ req' = [req EXCEPT ![s].pc = "rejected",
                           ![s].thrown = RuntimeError("ProgressEvent")]
  /\ UNCHANGED <<input, output, options, client, messages, systemPrompt,
                 history, nsends, cleared, outcome>>

VisionResume(s) ==
  /\ req[s].caller = "vision"
  /\ req[s].pc \in {"done", "failed", "rejected"}
  /\ outcome' = Resume(req[s])
  /\ req' = [req EXCEPT ![s] = FreeSlot]
  /\ UNCHANGED <<input, output, options, client, messages, systemPrompt,
                 history, nsends, cleared>>

(***************************************************************************)
(* ChatSession.  messages is the turn log, systemPrompt the directive the  *)
(* session was created with.  history records, for every send completed    *)
(* since the session was created or cleared, the message, whether the send *)
(* returned, and the body it received; cleared records that clear has been *)
(* called.                                                                 *)
(***************************************************************************)
Messages == {<<"h", "i">>, <<"a", "g">>}
Directives == {<<>>, <<"s">>}

UserTurn(message) == Turn("user", <<TextPart(message)>>)
ModelTurn(text) == Turn("model", <<TextPart(text)>>)
SystemTurn(directive) == Turn("system", <<TextPart(directive)>>)

SendContentsSystemLast(log, directive) ==
  IF directive # <<>> THEN Append(log, SystemTurn(directive)) ELSE log

\* let contents = [...this.messages]; unshift of the system turn
SendContents(log, directive) ==
  IF directive # <<>> THEN <<SystemTurn(directive)>> \o log ELSE log

\* send up to await this.client.request(endpoint, data)
SendStart(message) ==
  LET pushed == Append(messages, UserTurn(message))
  IN  /\ messages' = pushed
      /\ req' = [req EXCEPT ![NextSlot] =
                   StartRequest([@ EXCEPT !.message = message,
                                          !.before = messages],
                                "chat",
                                Payload(SendContents(pushed, systemPrompt)))]

ChatSend ==
  /\ InFlight = {}
  /\ nsends < MaxSends
  /\ \E message \in Messages : SendStart(message)
  /\ nsends' = nsends + 1
  /\ outcome' = NoOutcome
  /\ UNCHANGED <<input, output, options, client, systemPrompt, history, cleared>>

\* send after the await: the response is wrapped and its text pushed as a
\* model turn; a rejection, or a throw of the wrapper, leaves the log alone
SendOutcome(r) ==
  LET o == Resume(r)
  IN  IF o.status = "returned" /\ TextThrows(o.response)
      THEN Outcome(r.caller, "threw", RuntimeError("TypeError"), NoTextResponse)
      ELSE o

LogAfterSendRollsBack(log, o) ==
  IF o.status = "returned"
  THEN Append(log, ModelTurn(ResponseText(o.response)))
  ELSE IF log # <<>> /\ log[Len(log)].role = "user"
  THEN SubSeq(log, 1, Len(log) - 1)
  ELSE log

LogAfterSendRawText(log, o) ==
  IF o.status = "returned"
  THEN Append(log, ModelTurn(IF Len(o.response.candidates) = 0 THEN <<>>
                             ELSE LET c == o.response.candidates[1]
                                  IN  IF c.hasParts /\ c.parts # <<>>
                                      THEN c.parts[1].text ELSE <<>>))
  ELSE log

LogAfterSendAlwaysReplies(log, o) ==
  IF o.status = "returned"
  THEN Append(log, ModelTurn(ResponseText(o.response)))
  ELSE Append(log, ModelTurn(<<>>))

\* the reply is put behind the first user turn that no model turn follows
RECURSIVE AnswerFirstOpenTurn(_, _)
AnswerFirstOpenTurn(log, turn) ==
  IF log = <<>> THEN <<turn>>
  ELSE IF Head(log).role = "user"
          /\ (Len(log) = 1 \/ log[2].role # "model")
  THEN <<Head(log), turn>> \o Tail(log)
  ELSE <<Head(log)>> \o AnswerFirstOpenTurn(Tail(log), turn)

LogAfterSendPairsTurns(log, o) ==
  IF o.status = "returned"
  THEN AnswerFirstOpenTurn(log, ModelTurn(ResponseText(o.response)))
  ELSE log

LogAfterSend(log, o) ==
  IF o.status = "returned"
  THEN Append(log, ModelTurn(ResponseText(o.response)))
  ELSE log

ChatResume(s) ==
  /\ req[s].caller = "chat"
  /\ req[s].pc \in {"done", "failed"}
  /\ LET o == SendOutcome(req[s])
     IN  /\ messages' = LogAfterSend(messages, o)
         /\ history' = Append(history,
                              [message |-> req[s].message,
                               ok |-> o.status = "returned",
                               body |-> o.response.raw])
         /\ outcome' = o
  /\ req' = [req EXCEPT ![s] = FreeSlot]
  /\ UNCHANGED <<input, output, options, client, systemPrompt, nsends, cleared>>

ClearedLogKeepsOpenTurn(log) ==
  IF log # <<>> /\ log[Len(log)].role = "user"
  THEN <<log[Len(log)]>> ELSE <<>>

ClearedLog(log) == <<>>

ChatClear ==
  /\ InFlight = {}
  /\ messages' = ClearedLog(messages)
  /\ history' = <<>>
  /\ cleared' = TRUE
  /\ outcome' = Outcome("clear", "returned", NoError, NoTextResponse)
  /\ UNCHANGED <<input, output, options, client, req, systemPrompt, nsends>>

(***************************************************************************)
(* Specifications                                                          *)
(***************************************************************************)
\* input and output are the arguments and the result of a call that
\* computes its result without suspending; no such call here
NoInput == [op |-> "none"]
NoOutput == [status |-> "none"]

OptionValues == {Undefined} \cup (0 .. MaxRetriesOpt)

\* new GeminiClient(apiKey, options) and client.text.chat({systemPrompt})
Init ==
  /\ options \in [maxRetries : OptionValues]
  /\ client = GeminiClient(options)
  /\ req = [s \in Slots |-> FreeSlot]
  /\ messages = <<>>
  /\ systemPrompt \in Directives
  /\ history = <<>>
  /\ nsends = 0
  /\ cleared = FALSE
  /\ outcome = NoOutcome
  /\ input = NoInput
  /\ output = NoOutput

RequestStep ==
  \E s \in Slots :
    \/ FetchResponds(s)
    \/ FetchRejects(s)
    \/ TimeoutFires(s)
    \/ BackoffElapsed(s)

\* calls of the handlers of one client, one call at a time
Next ==
  \/ RequestStep
  \/ TextGenerate
  \/ \E s \in Slots : TextResume(s)
  \/ VisionAnalyze
  \/ \E s \in Slots : VisionBlobLoaded(s)
  \/ \E s \in Slots : VisionResume(s)

Spec == Init /\ [][Next]_vars

\* calls of TextHandler.generate, one at a time, where every pending fetch
\* settles or is aborted by its timer and every backoff timer fires
NextText ==
  \/ RequestStep
  \/ TextGenerate
  \/ \E s \in Slots : TextResume(s)

AttemptEnds(s) == FetchResponds(s) \/ FetchRejects(s) \/ TimeoutFires(s)

SpecTextFair ==
  /\ Init
  /\ [][NextText]_vars
  /\ \A s \in Slots : WF_vars(AttemptEnds(s)) /\ WF_vars(BackoffElapsed(s))

\* calls of send and clear on one chat session, one call at a time; the
\* session's client is configured with one retry
InitChat == Init /\ options.maxRetries = 1

NextChat ==
  \/ RequestStep
  \/ ChatSend
  \/ \E s \in Slots : ChatResume(s)
  \/ ChatClear

SpecChat == InitChat /\ [][NextChat]_vars

\* send called whether or not an earlier send of the session awaits its
\* response: each slot carries one send of the session
ChatSendOverlapping ==
  /\ InFlight # Slots
  /\ nsends < Cardinality(Slots)
  /\ \E message \in Messages : SendStart(message)
  /\ nsends' = nsends + 1
  /\ outcome' = NoOutcome
  /\ UNCHANGED <<input, output, options, client, systemPrompt, history, cleared>>

\* two calls of send on one chat session that need not wait for each other
NextOverlap ==
  \/ RequestStep
  \/ ChatSendOverlapping
  \/ \E s \in Slots : ChatResume(s)

SpecOverlap == InitChat /\ [][NextOverlap]_vars

\* clear called while a send of the session awaits its response: the
\* session's messages becomes a new empty array, the send is not told
ChatClearInFlight ==
  /\ InFlight # {}
  /\ messages' = ClearedLog(messages)
  /\ history' = <<>>
  /\ cleared' = TRUE
  /\ outcome' = Outcome("clear", "returned", NoError, NoTextResponse)
  /\ UNCHANGED <<input, output, options, client, req, systemPrompt, nsends>>

\* calls of send, one at a time, and calls of clear at any time
NextClear ==
  \/ RequestStep
  \/ ChatSend
  \/ \E s \in Slots : ChatResume(s)
  \/ ChatClear
  \/ ChatClearInFlight

SpecClear == InitChat /\ [][NextClear]_vars

(***************************************************************************)
(* Properties of GeminiClient.request                                      *)
(***************************************************************************)
Running == {s \in Slots : req[s].pc \in {"fetch", "backoff", "done", "failed"}}

NonDecreasing(seq) == \A i \in 1 .. Len(seq) - 1 : seq[i] <= seq[i + 1]

\* C1: while the server has answered every attempt so far with a retryable
\* status, and no more than maxRetries of them, the call has not failed;
\* when N <= maxRetries such answers are followed by a success status with a
\* JSON body, the call has returned that body after exactly N + 1 attempts
\* and N waits, the waits non-decreasing.
C1_RetriesThenSucceeds ==
  \A s \in Running :
    LET r == req[s]
        n == Len(r.log)
    IN  /\ (n <= client.maxRetries /\ \A i \in 1 .. n : r.log[i] = "retryable")
             => /\ r.pc \in {"fetch", "backoff"}
                /\ NonDecreasing(r.delays)
        /\ (/\ n >= 1
            /\ n - 1 <= client.maxRetries
            /\ r.log[n] = "ok"
            /\ r.served.body.kind # "invalid"
            /\ \A i \in 1 .. n - 1 : r.log[i] = "retryable")
             => /\ r.pc = "done"
                /\ r.result = r.served.body
                /\ r.attempts = n
                /\ Len(r.delays) = n - 1
                /\ NonDecreasing(r.delays)

\* C2: an attempt answered with a non-success status outside
\* {429, 500, 502, 503, 504} is the last attempt of its call: the call has
\* failed at it, with no wait and no attempt after it.
C2_FatalStatusFailsAtOnce ==
  \A s \in Running :
    LET r == req[s]
    IN  \A i \in 1 .. Len(r.log) :
          r.log[i] = "fatal"
            => /\ i = Len(r.log)
               /\ r.pc = "failed"
               /\ r.attempts = i
               /\ Len(r.delays) = i - 1

\* C3: a call makes at most maxRetries + 1 attempts, maxRetries being the
\* non-negative value the caller configured (0 included).
C3_AtMostConfiguredAttempts ==
  options.maxRetries # Undefined
    => \A s \in Slots : req[s].attempts <= options.maxRetries + 1

\* C4: an attempt aborted by its timeout timer is the last attempt of its
\* call: the call has failed with a GeminiError coded 408, with no wait and
\* no attempt after it, whatever number of retries remains.
C4_TimeoutFailsWith408 ==
  \A s \in Running :
    LET r == req[s]
    IN  \A i \in 1 .. Len(r.log) :
          r.log[i] = "timeout"
            => /\ i = Len(r.log)
               /\ r.pc = "failed"
               /\ r.thrown.name = "GeminiError"
               /\ r.thrown.code = 408
               /\ r.attempts = i
               /\ Len(r.delays) = i - 1

\* a timeout after an earlier attempt was retried, with retries remaining
C4_Witness ==
  \E s \in Running :
    /\ req[s].log = <<"retryable", "timeout">>
    /\ req[s].retries <= client.maxRetries
    /\ req[s].pc = "failed"
    /\ req[s].thrown.code = 408

\* C5: when all maxRetries + 1 attempts were answered with a retryable
\* status or with no response, the call has failed with the error the last
\* attempt raised, unchanged; the code of a Service Error is the status of
\* the last attempt.
C5_ExhaustionRethrowsLast ==
  \A s \in Running :
    LET r == req[s]
    IN  (/\ r.pc = "failed"
         /\ Len(r.log) = client.maxRetries + 1
         /\ \A i \in 1 .. Len(r.log) : r.log[i] \in {"retryable", "none"})
          => /\ r.attempts = client.maxRetries + 1
             /\ r.thrown = r.lastErr
             /\ r.thrown.name # "none"
             /\ (r.thrown.name = "GeminiError"
                   => r.thrown.code = r.served.status)

\* the budget of a client with at least one retry is spent on retryable
\* statuses and the last Service Error comes out
C5_Witness ==
  \E s \in Running :
    /\ req[s].pc = "failed"
    /\ client.maxRetries >= 1
    /\ Len(req[s].log) = client.maxRetries + 1
    /\ \A i \in 1 .. Len(req[s].log) : req[s].log[i] = "retryable"
    /\ req[s].thrown = GeminiError(StatusText(503), 503)
    /\ req[s].served.status = 503

(***************************************************************************)
(* Properties of ChatSession                                               *)
(***************************************************************************)
\* the turns that the sends recorded in h leave behind when all returned
RECURSIVE ExpectedTurns(_)
ExpectedTurns(h) ==
  IF h = <<>> THEN <<>>
  ELSE <<UserTurn(Head(h).message),
         ModelTurn(ResponseText(TextResponse(Head(h).body)))>>
       \o ExpectedTurns(Tail(h))

AllReturned(h) == \A i \in 1 .. Len(h) : h[i].ok

\* C6: from an empty log, after k sends that all returned, the log is
\* [user:m1, model:r1, ..., user:mk, model:rk], 2k turns, every model turn
\* holding the text of its response; a send that is under way has added its
\* user turn.
C6_SuccessfulSendsLog ==
  AllReturned(history)
    => /\ InFlight = {}
         => /\ messages = ExpectedTurns(history)
            /\ Len(messages) = 2 * Len(history)
       /\ \A s \in InFlight :
            messages = Append(ExpectedTurns(history), UserTurn(req[s].message))

\* send("hi") and send("ag") both returned, the first with parts a, b
C6_Witness ==
  /\ InFlight = {}
  /\ Len(history) = 2
  /\ AllReturned(history)
  /\ messages = <<UserTurn(<<"h", "i">>), ModelTurn(<<"a", "b">>),
                  UserTurn(<<"a", "g">>), ModelTurn(<<"b">>)>>

\* C7: a send that fails leaves the log as it was before the call followed
\* by the user turn of its message, and the caller gets the error request
\* threw.
C7_FailedSendKeepsUserTurn ==
  [][\A s \in Slots :
       (/\ req[s].caller = "chat"
        /\ req[s].pc \in {"done", "failed"}
        /\ req'[s].pc = "free"
        /\ outcome'.status # "returned")
         => /\ messages' = Append(req[s].before, UserTurn(req[s].message))
            /\ outcome'.status = "threw"
            /\ req[s].pc = "failed" => outcome'.err = req[s].thrown]_vars

\* the second send failed with a Service Error after the first returned
C7_Witness ==
  /\ InFlight = {}
  /\ Len(history) = 2
  /\ history[1].ok /\ ~history[2].ok
  /\ outcome.status = "threw"
  /\ outcome.err.name = "GeminiError"
  /\ Len(messages) = 3
  /\ messages[3] = UserTurn(history[2].message)

UserAt(i) == messages[i].role = "user"
\* user turns with no model turn right after them
Unanswered ==
  {i \in 1 .. Len(messages) :
     UserAt(i) /\ (i = Len(messages) \/ UserAt(i + 1))}
Failed == {i \in 1 .. Len(history) : ~history[i].ok}

\* C8 as stated: no two adjacent turns have the same role, the log starts
\* with a user turn.
C8_StrictAlternation ==
  /\ messages # <<>> => UserAt(1)
  /\ \A i \in 1 .. Len(messages) - 1 : messages[i].role # messages[i + 1].role

\* C8 amended: the log holds user and model turns only, starts with a user
\* turn, and every model turn comes right after a user turn; the user turns
\* with no model turn after them are as many as the sends that failed since
\* the log was last empty plus the send under way.
C8_ModelTurnsFollowUserTurns ==
  /\ \A i \in 1 .. Len(messages) : messages[i].role \in {"user", "model"}
  /\ messages # <<>> => UserAt(1)
  /\ \A i \in 1 .. Len(messages) :
       ~UserAt(i) => i > 1 /\ UserAt(i - 1)
  /\ Cardinality(Unanswered) = Cardinality(Failed) + Cardinality(InFlight)

\* a failed send followed by a send that returned: [user, user, model]
C8_Witness ==
  /\ InFlight = {}
  /\ Len(history) = 2
  /\ ~history[1].ok /\ history[2].ok
  /\ Len(messages) = 3
  /\ UserAt(1) /\ UserAt(2) /\ ~UserAt(3)

\* the contents a session without turns sends for a message
FreshContents(directive, message) ==
  IF directive = <<>> THEN <<UserTurn(message)>>
  ELSE <<SystemTurn(directive), UserTurn(message)>>

\* C9: clear leaves the log empty and returns the session; the first send
\* after it sends the system turn (when the directive is set) and the new
\* user turn only, and leaves in the log what it leaves in the log of a new
\* session.
C9_ClearThenSendIsFresh ==
  /\ (outcome.caller = "clear" /\ InFlight = {})
       => /\ messages = <<>>
          /\ outcome.status = "returned"
          /\ outcome.self
  /\ \A s \in InFlight :
       (cleared /\ history = <<>>)
         => /\ req[s].data = Payload(FreshContents(systemPrompt, req[s].message))
            /\ messages = <<UserTurn(req[s].message)>>
  /\ (cleared /\ InFlight = {} /\ Len(history) = 1)
       => messages = IF history[1].ok THEN ExpectedTurns(history)
                     ELSE <<UserTurn(history[1].message)>>

\* a send under way after a clear that followed an earlier send, on a
\* session with a directive
C9_Witness ==
  /\ cleared
  /\ history = <<>>
  /\ nsends = 2
  /\ systemPrompt # <<>>
  /\ \E s \in InFlight : req[s].caller = "chat" /\ req[s].pc = "fetch"

(***************************************************************************)
(* Properties of VisionHandler                                             *)
(***************************************************************************)
\* C10: analyze of an image that is neither a string nor a Blob / File has
\* thrown the validation error and has made no network attempt.
C10_UnsupportedImageRejected ==
  \A s \in Slots :
    (req[s].caller = "vision" /\ req[s].image.type \notin {"string", "blob"})
      => /\ req[s].attempts = 0
         /\ req[s].pc = "rejected"
         /\ req[s].thrown = ValidationError

(***************************************************************************)
(* Calls that compute their result from their arguments: the request body  *)
(* a handler builds, the constructor, the accessors of the responses.      *)
(* input holds the arguments, output the result once the call has run.     *)
(***************************************************************************)
\* defaults of the generation configuration; fractions in hundredths
DefaultTemperature == 70
DefaultTopK == 40
DefaultTopP == 95
DefaultMaxTokens == 1024
CodeTemperature == 20

GenOptions(temperature, topK, topP, maxTokens) ==
  [temperature |-> temperature, topK |-> topK, topP |-> topP,
   maxTokens |-> maxTokens]

\* every option unset, 0, or a value of the caller's
GenOptionInputs ==
  {GenOptions(t, k, p, m) :
     t \in {Undefined, 0, 80}, k \in {Undefined, 0, 10},
     p \in {Undefined, 0, 50}, m \in {Undefined, 0, 256}}

\* a prompt is a string, or an object with optional parts and text members
Prompt(type, text, hasParts, parts) ==
  [type |-> type, text |-> text, hasParts |-> hasParts, parts |-> parts]

PromptInputs ==
  {Prompt("string", <<"p">>, FALSE, <<>>),
   Prompt("object", <<"t">>, FALSE, <<>>),
   Prompt("object", <<>>, FALSE, <<>>),
   Prompt("object", <<"t">>, TRUE, <<TextPart(<<"q">>), TextPart(<<"r">>)>>)}

\* typeof prompt === 'string' ? [{text: prompt}]
\*   : prompt.parts || [{text: prompt.text || ''}]
PromptParts(prompt) ==
  IF prompt.type = "string" THEN <<TextPart(prompt.text)>>
  ELSE IF prompt.hasParts THEN prompt.parts
  ELSE <<TextPart(prompt.text)>>

GenerationConfig(o) ==
  [temperature |-> OrDefault(o.temperature, DefaultTemperature),
   topK |-> OrDefault(o.topK, DefaultTopK),
   topP |-> OrDefault(o.topP, DefaultTopP),
   maxOutputTokens |-> OrDefault(o.maxTokens, DefaultMaxTokens)]

\* the data TextHandler.generate passes to request
TextRequest(prompt, o) ==
  [contents |-> <<Turn("none", PromptParts(prompt))>>,
   generationConfig |-> GenerationConfig(o)]

\* { ...options, temperature: options.temperature || 0.2 }
CodeOptions(o) ==
  [o EXCEPT !.temperature = OrDefault(@, CodeTemperature)]

\* `Generate ${language} code that ${description}. ...`
CodePrompt(description, language) ==
  Prompt("string", <<"G">> \o language \o <<"c">> \o description \o <<".">>,
         FALSE, <<>>)

TextGenerateInputs ==
  [op : {"text.generate"}, prompt : PromptInputs, options : GenOptionInputs]

CodeGenerateInputs ==
  [op : {"code.generate"}, description : {<<"d">>},
   language : {<<"j", "s">>, <<"p", "y">>}, options : GenOptionInputs]

\* TextHandler.generate up to the call of request
BuildTextRequest ==
  /\ input.op = "text.generate"
  /\ output = NoOutput
  /\ output' = [status |-> "built", received |-> input.options,
                data |-> TextRequest(input.prompt, input.options)]
  /\ UNCHANGED <<input, options, client, req, messages, systemPrompt,
                 history, nsends, cleared, outcome>>

\* CodeHandler.generate up to the call of request in TextHandler.generate
BuildCodeRequest ==
  /\ input.op = "code.generate"
  /\ output = NoOutput
  /\ LET o == CodeOptions(input.options)
     IN  output' = [status |-> "built", received |-> o,
                    data |-> TextRequest(CodePrompt(input.description,
                                                    input.language), o)]
  /\ UNCHANGED <<input, options, client, req, messages, systemPrompt,
                 history, nsends, cleared, outcome>>

(***************************************************************************)
(* new GeminiClient(apiKey, options)                                       *)
(***************************************************************************)
ApiKey(type, text) == [type |-> type, text |-> text]
ApiKeyInputs ==
  {ApiKey("undefined", <<>>), ApiKey("null", <<>>), ApiKey("string", <<>>),
   ApiKey("string", <<"k">>)}

\* the state of a caller that holds no client object
NoClient == [maxRetries |-> Undefined]

KeyMissingOnlyUndefined(apiKey) == apiKey.type = "undefined"

\* !apiKey
KeyMissing(apiKey) ==
  apiKey.type \in {"undefined", "null"} \/ apiKey.text = <<>>

ConfigurationError == Err("Error", 0, <<"A", "P", "I">>)

ConstructInputs ==
  [op : {"construct"}, apiKey : ApiKeyInputs,
   options : [maxRetries : OptionValues]]

Construct ==
  /\ input.op = "construct"
  /\ output = NoOutput
  /\ IF KeyMissing(input.apiKey)
     THEN /\ output' = [status |-> "threw", err |-> ConfigurationError]
          /\ UNCHANGED <<client, options>>
     ELSE /\ output' = [status |-> "returned", err |-> NoError]
          /\ options' = input.options
          /\ client' = GeminiClient(input.options)
  /\ UNCHANGED <<input, req, messages, systemPrompt, history, nsends,
                 cleared, outcome>>

(***************************************************************************)
(* EmbeddingsHandler.generate(texts) and EmbeddingsResponse.embeddings()   *)
(***************************************************************************)
\* longest array of texts, and of vectors in a response
MaxTexts == 3

Letters == {<<"a">>, <<"b">>, <<"c">>}
SeqsUpTo(S, n) == UNION {[1 .. k -> S] : k \in 0 .. n}

\* texts is a string or an array of strings
TextsInputs ==
  {[isArray |-> FALSE, items |-> <<t>>] : t \in Letters}
    \cup {[isArray |-> TRUE, items |-> a] : a \in SeqsUpTo(Letters, MaxTexts)}

\* the vector a backend that embeds each part by itself gives to a text
Vector(text) ==
  CASE text = <<"a">> -> <<1, 0>>
    [] text = <<"b">> -> <<0, 1>>
    [] OTHER -> <<1, 1>>

Embedding(values) == [values |-> values]

\* bodies of embedContent: null, an object without embeddings, an object
\* with an array of embeddings
EmbedBody(kind, hasEmbeddings, embeddings) ==
  [kind |-> kind, hasEmbeddings |-> hasEmbeddings, embeddings |-> embeddings]

EmbedBodies ==
  {EmbedBody("null", FALSE, <<>>), EmbedBody("object", FALSE, <<>>)}
    \cup {EmbedBody("object", TRUE, e) :
            e \in SeqsUpTo({Embedding(Vector(t)) : t \in Letters}, MaxTexts)}

\* Array.isArray(texts) ? texts : [texts]
TextArray(texts) == texts.items

EmbedPartsReversed(textArray) ==
  [i \in 1 .. Len(textArray) |->
     TextPart(textArray[Len(textArray) + 1 - i])]

\* textArray.map(text => ({ text }))
EmbedParts(textArray) ==
  [i \in 1 .. Len(textArray) |-> TextPart(textArray[i])]

EmbedRequest(texts) == [content |-> [parts |-> EmbedParts(TextArray(texts))]]

\* this.raw.embeddings?.map(emb => emb.values) || []
Embeddings(raw) ==
  IF raw.hasEmbeddings
  THEN [i \in 1 .. Len(raw.embeddings) |-> raw.embeddings[i].values]
  ELSE <<>>

EmbeddingsInputs ==
  [op : {"embeddings.generate"}, texts : TextsInputs, body : EmbedBodies]

\* generate builds the request, request returns the body, the caller reads
\* embeddings() of the wrapped body (a TypeError on the body null)
EmbeddingsGenerate ==
  /\ input.op = "embeddings.generate"
  /\ output = NoOutput
  /\ output' = [status |-> IF input.body.kind = "null" THEN "threw"
                           ELSE "returned",
                data |-> EmbedRequest(input.texts),
                embeddings |-> IF input.body.kind = "null" THEN <<>>
                               ELSE Embeddings(input.body)]
  /\ UNCHANGED <<input, options, client, req, messages, systemPrompt,
                 history, nsends, cleared, outcome>>

(***************************************************************************)
(* new TextResponse(body), then candidates() and text()                    *)
(***************************************************************************)
\* JSON bodies of a 200 response
ResponseBodies ==
  {b \in SuccessBodies : b.kind # "invalid"}
    \cup {ObjectBody(<<>>), ObjectBody(<<CandNoContent, CandAB>>),
          ObjectBody(<<CandAB, CandNoContent>>)}

TextResponseInputs == [op : {"text.response"}, body : ResponseBodies]

ReadTextResponse ==
  /\ input.op = "text.response"
  /\ output = NoOutput
  /\ LET response == TextResponse(input.body)
     IN  output' =
           IF WrapThrows(input.body)
           THEN [status |-> "threw", at |-> "constructor", text |-> <<>>,
                 ncandidates |-> 0]
           ELSE IF TextThrows(response)
           THEN [status |-> "threw", at |-> "text", text |-> <<>>,
                 ncandidates |-> Len(response.candidates)]
           ELSE [status |-> "returned", at |-> "none",
                 text |-> ResponseText(response),
                 ncandidates |-> Len(response.candidates)]
  /\ UNCHANGED <<input, options, client, req, messages, systemPrompt,
                 history, nsends, cleared, outcome>>

\* one call's arguments, and a client with default options for the calls
\* of its handlers
InitCalls ==
  /\ \/ input \in TextGenerateInputs
     \/ input \in CodeGenerateInputs
     \/ input \in ConstructInputs
     \/ input \in EmbeddingsInputs
     \/ input \in TextResponseInputs
  /\ options = [maxRetries |-> Undefined]
  /\ client = IF input.op = "construct" THEN NoClient
              ELSE GeminiClient(options)
  /\ req = [s \in Slots |-> FreeSlot]
  /\ messages = <<>>
  /\ systemPrompt = <<>>
  /\ history = <<>>
  /\ nsends = 0
  /\ cleared = FALSE
  /\ outcome = NoOutcome
  /\ output = NoOutput

NextCalls ==
  \/ BuildTextRequest
  \/ BuildCodeRequest
  \/ Construct
  \/ EmbeddingsGenerate
  \/ ReadTextResponse

SpecCalls == InitCalls /\ [][NextCalls]_vars

(***************************************************************************)
(* Properties of the handlers' request bodies                              *)
(***************************************************************************)
\* C11: in the request TextHandler.generate builds, every generation option
\* the caller set, 0 included, is the caller's value, and every option the
\* caller left unset is the default 0.7, 40, 0.95, 1024.
C11_ExplicitOptionsKept ==
  output.status = "built"
    => LET o == output.received
           c == output.data.generationConfig
       IN  /\ c.temperature = IF o.temperature = Undefined THEN 70
                              ELSE o.temperature
           /\ c.topK = IF o.topK = Undefined THEN 40 ELSE o.topK
           /\ c.topP = IF o.topP = Undefined THEN 95 ELSE o.topP
           /\ c.maxOutputTokens = IF o.maxTokens = Undefined THEN 1024
                                  ELSE o.maxTokens

(***************************************************************************)
(* Properties of the constructor                                           *)
(***************************************************************************)
\* C12: the constructor called with a missing or empty credential has
\* thrown, whatever the options: no client object exists and no request
\* has made an attempt.
C12_MissingKeyThrows ==
  (/\ input.op = "construct"
   /\ output # NoOutput
   /\ (input.apiKey.type # "string" \/ input.apiKey.text = <<>>))
    => /\ output.status = "threw"
       /\ client = NoClient
       /\ \A s \in Slots : req[s].pc = "free" /\ req[s].attempts = 0

\* an empty string as the credential, with maxRetries configured
C12_Witness ==
  /\ input.op = "construct"
  /\ input.apiKey = ApiKey("string", <<>>)
  /\ input.options.maxRetries = 1
  /\ output.status = "threw"

(***************************************************************************)
(* Properties of the embeddings                                            *)
(***************************************************************************)
\* C13: the request of EmbeddingsHandler.generate holds one text part per
\* input text, in input order (one part for a single string); embeddings()
\* is the response's vectors in response order; so when the backend answers
\* with the vector of each part, in the order of the parts, vector i of the
\* result is the vector of text i.
C13_EmbeddingsKeepOrder ==
  (input.op = "embeddings.generate" /\ output # NoOutput)
    => LET texts == input.texts.items
           parts == output.data.content.parts
           sent == input.body.embeddings
           got == output.embeddings
       IN  /\ Len(parts) = Len(texts)
           /\ ~input.texts.isArray => Len(parts) = 1
           /\ \A i \in 1 .. Len(texts) : parts[i] = TextPart(texts[i])
           /\ input.body.hasEmbeddings
                => /\ output.status = "returned"
                   /\ Len(got) = Len(sent)
                   /\ \A i \in 1 .. Len(sent) : got[i] = sent[i].values
           /\ (/\ input.body.hasEmbeddings
               /\ Len(sent) = Len(parts)
               /\ \A i \in 1 .. Len(parts) :
                    sent[i].values = Vector(parts[i].text))
                => \A i \in 1 .. Len(texts) : got[i] = Vector(texts[i])

\* ["a", "b", "c"] answered part by part
C13_Witness ==
  /\ input.op = "embeddings.generate"
  /\ input.texts = [isArray |-> TRUE, items |-> <<<<"a">>, <<"b">>, <<"c">>>>]
  /\ output.status = "returned"
  /\ output.embeddings = <<<<1, 0>>, <<0, 1>>, <<1, 1>>>>

(***************************************************************************)
(* Properties of TextResponse                                              *)
(***************************************************************************)
\* C14: for every response body, text() has returned the texts of the
\* parts of candidate 0 joined in order (the empty text without
\* candidates) and candidates() has one entry per candidate of the body.
C14_TextJoinsFirstCandidate ==
  (input.op = "text.response" /\ output # NoOutput)
    => LET cands == IF input.body.hasCandidates THEN input.body.candidates
                    ELSE <<>>
       IN  /\ output.status = "returned"
           /\ output.ncandidates = Len(cands)
           /\ output.text = IF cands = <<>> THEN <<>>
                            ELSE JoinTexts(cands[1].parts)

(***************************************************************************)
(* Properties of overlapping sends                                         *)
(***************************************************************************)
IsPrefix(p, q) == Len(p) <= Len(q) /\ SubSeq(q, 1, Len(p)) = p

RECURSIVE TurnsOf(_, _)
TurnsOf(role, log) ==
  IF log = <<>> THEN <<>>
  ELSE (IF Head(log).role = role THEN <<Head(log)>> ELSE <<>>)
       \o TurnsOf(role, Tail(log))

RECURSIVE Replies(_)
Replies(h) ==
  IF h = <<>> THEN <<>>
  ELSE (IF Head(h).ok
        THEN <<ModelTurn(ResponseText(TextResponse(Head(h).body)))>>
        ELSE <<>>)
       \o Replies(Tail(h))

\* C15: when sends overlap, every turn is put at the end of the log at the
\* time it is made: while a send awaits, the log it saw followed by its user
\* turn is a prefix of the log; there is one user turn per send started, and
\* the model turns are the replies in the order the sends completed, which
\* need not be the order of their user turns.
C15_OverlapAppendsInCompletionOrder ==
  /\ \A s \in InFlight :
       req[s].caller = "chat"
         => IsPrefix(Append(req[s].before, UserTurn(req[s].message)), messages)
  /\ Len(TurnsOf("user", messages)) = nsends
  /\ TurnsOf("model", messages) = Replies(history)

\* hi then ag were sent, ag was answered first: [user, user, model, model]
\* with the reply to the second user turn before the reply to the first
C15_Witness ==
  /\ messages = <<UserTurn(<<"h", "i">>), UserTurn(<<"a", "g">>),
                  ModelTurn(<<"b">>), ModelTurn(<<"a", "b">>)>>
  /\ Len(history) = 2
  /\ history[1] = [message |-> <<"a", "g">>, ok |-> TRUE,
                   body |-> ObjectBody(<<CandB, CandAB>>)]
  /\ history[2] = [message |-> <<"h", "i">>, ok |-> TRUE,
                   body |-> ObjectBody(<<CandAB>>)]

(***************************************************************************)
(* Properties of the contents a send requests                              *)
(***************************************************************************)
\* C16: the turn log never holds a system turn; the request of a send
\* carries, in this order, one system turn made of the directive when the
\* directive is set and none otherwise, the turn log as it was when send was
\* called, and the new user turn.
C16_SystemTurnOnlyInRequest ==
  /\ \A i \in 1 .. Len(messages) : messages[i].role # "system"
  /\ \A s \in InFlight :
       req[s].caller = "chat"
         => LET contents == req[s].data.contents
                lead == IF systemPrompt # <<>>
                        THEN <<SystemTurn(systemPrompt)>> ELSE <<>>
            IN  /\ contents = lead \o req[s].before
                                \o <<UserTurn(req[s].message)>>
                /\ Len(TurnsOf("system", contents))
                     = IF systemPrompt # <<>> THEN 1 ELSE 0
                /\ \A i \in 1 .. Len(req[s].before) :
                     req[s].before[i].role # "system"

\* a second send of a session with a directive, after an answered first one
C16_Witness ==
  \E s \in InFlight :
    /\ req[s].caller = "chat"
    /\ req[s].pc = "fetch"
    /\ systemPrompt = <<"s">>
    /\ req[s].before = <<UserTurn(<<"h", "i">>), ModelTurn(<<"a", "b">>)>>
    /\ req[s].message = <<"a", "g">>
    /\ Len(req[s].data.contents) = 4

(***************************************************************************)
(* Properties of the retry decision                                        *)
(***************************************************************************)
Last(seq) == seq[Len(seq)]

\* C17: when the latest failed attempt of a call was a transport failure,
\* the call has failed only if its attempts are spent, and then with that
\* failure; otherwise a backoff wait was started for it.
C17_TransportFailureRetried ==
  \A s \in Running :
    (req[s].log # <<>> /\ Last(req[s].log) = "none")
      => IF req[s].retries <= client.maxRetries
         THEN /\ req[s].pc \in {"backoff", "fetch", "done"}
              /\ Len(req[s].delays) = Len(req[s].log)
         ELSE /\ req[s].pc = "failed"
              /\ req[s].thrown = req[s].lastErr

\* C18: an attempt that received a non-success status has failed with a
\* GeminiError whose code is that status, whatever the body; the call waits
\* for a retry exactly when the status is retryable and retries remain.
C18_StatusBecomesServiceError ==
  \A s \in Running :
    (/\ req[s].pc \in {"backoff", "failed"}
     /\ req[s].served.status # 0
     /\ ~Ok(req[s].served.status))
      => /\ req[s].lastErr.name = "GeminiError"
         /\ req[s].lastErr.code = req[s].served.status
         /\ req[s].pc = "backoff"
              <=> /\ req[s].served.status \in RetryableCodes
                  /\ req[s].retries <= client.maxRetries

(***************************************************************************)
(* Properties of the backoff waits                                         *)
(***************************************************************************)
\* C19: the k-th wait of a call is 500 * 2^k milliseconds; a call waits
\* only after a failed attempt whose error is retryable while retries
\* remain, one wait per such attempt: none before the first attempt and
\* none after the attempt that ended the call.
C19_BackoffDoubles ==
  \A s \in Running :
    /\ \A k \in 1 .. Len(req[s].delays) : req[s].delays[k] = 500 * 2^k
    /\ req[s].pc = "backoff"
         => /\ Len(req[s].delays) = req[s].attempts
            /\ isRetryableError(req[s].lastErr)
            /\ req[s].retries <= client.maxRetries
    /\ req[s].pc \in {"fetch", "done", "failed"}
         => Len(req[s].delays) = req[s].attempts - 1

\* four attempts of a client with the default three retries
C19_Witness ==
  \E s \in Running :
    /\ req[s].pc = "failed"
    /\ req[s].attempts = 4
    /\ req[s].delays = <<1000, 2000, 4000>>

(***************************************************************************)
(* Properties of the attempt timers                                        *)
(***************************************************************************)
\* C20: the only timer of a call that can be pending is the timer of the
\* attempt whose fetch is pending: none is pending during a backoff wait,
\* none of an earlier attempt during a later one, none after the call ended.
C20_TimerCancelledOnCompletion ==
  \A s \in Slots :
    req[s].timers \subseteq
      (IF req[s].pc = "fetch" THEN {req[s].attempts} ELSE {})

(***************************************************************************)
(* Termination of GeminiClient.request                                     *)
(***************************************************************************)
\* the call returned the body it decoded from a response with a success
\* status
ReturnedSuccessBody(r) ==
  /\ r.pc = "done"
  /\ Ok(r.served.status)
  /\ r.served.body.kind \in {"null", "object"}
  /\ r.result = r.served.body
  /\ r.thrown = NoError

Threw(r) == r.pc = "failed" /\ r.thrown # NoError /\ r.result = NoBody

\* C21: when every attempt ends and every backoff wait elapses, a call of
\* request that is running comes to its end; a call at its end has either
\* returned the decoded body of a success response or thrown an error, and
\* never both or neither.
C21_RequestTerminates ==
  /\ [](\A s \in Slots :
          req[s].pc \in {"done", "failed"}
            => /\ ReturnedSuccessBody(req[s]) \/ Threw(req[s])
               /\ ~(ReturnedSuccessBody(req[s]) /\ Threw(req[s])))
  /\ \A s \in Slots :
       (req[s].pc \in {"fetch", "backoff"})
         ~> (req[s].pc \in {"done", "failed"})

\* a call that returned after three retries, and options.maxRetries = 0
C21_Witness ==
  \E s \in Slots :
    /\ ReturnedSuccessBody(req[s])
    /\ req[s].attempts = 4
    /\ options.maxRetries = 0

(***************************************************************************)
(* Properties of clear during a send                                       *)
(***************************************************************************)
\* the log was cleared after send s pushed its user turn
ClearedSince(s) ==
  ~IsPrefix(Append(req[s].before, UserTurn(req[s].message)), messages)

NoOrphanReply(log) ==
  \A i \in 1 .. Len(log) :
    log[i].role = "model" => i > 1 /\ log[i - 1].role = "user"

\* C22: when a send whose log was cleared while it was in flight completes,
\* it leaves the cleared log as it is, so that the log holds no model turn
\* without a user turn before it.
C22_ClearDropsReplyInFlight ==
  [][\A s \in Slots :
       (/\ req[s].caller = "chat"
        /\ req[s].pc \in {"done", "failed"}
        /\ req'[s].pc = "free"
        /\ ClearedSince(s))
         => messages' = messages /\ NoOrphanReply(messages')]_vars
====
